---- MODULE Spec2Model ----
(***************************************************************************)
(* Model of the binding pass of llf (src/src/binding.rs): the two          *)
(* ScopeMaps `vars` and `funs`, the recursive conversion of parse-level    *)
(* statements and expressions, and the tense-aware match_function.         *)
(*                                                                         *)
(* Rust Strings that are taken apart (function names and keys) are         *)
(* sequences of characters; variable names are only compared and are       *)
(* TLA+ strings.  An Rc<T> is the index of its allocation in funDecs or    *)
(* varDecs, so that two Rc's are the same object iff the indices agree.    *)
(* The parse-level tree is read left to right, one statement at a time;    *)
(* each statement is drawn when convert_statement takes it up, and `ast`   *)
(* holds the part of the tree read so far.                                 *)
(*                                                                         *)
(* The descent of the parser over the pest pairs (src/src/parsing.rs) and  *)
(* the Trace it returns on failure (src/src/error/trace.rs) are modelled   *)
(* beside it, as the stack of open build_ast_from_* calls.                 *)
(***************************************************************************)
EXTENDS Integers, Sequences, FiniteSets, TLC

VARIABLES
    ast,      \* the part of the parse-level tree read so far, in reading order
    pc,       \* "run" while binding, "abort" after a panic, "done" at the end
    vars,     \* ScopeMap<String, Rc<VarDec>>      (binding.rs:79)
    funs,     \* ScopeMap<String, Rc<FunDec>>      (binding.rs:80)
    stack,    \* the open convert_statement calls that are inside wrap_scope!
    out,      \* the bound top-level statements collected so far
    funDecs,  \* the FunDec objects allocated by Rc::new (binding.rs:134)
    varDecs,  \* the VarDec objects allocated by Rc::new (binding.rs:119)
    pos,      \* number of parse-level statements taken up so far
    panic,    \* where the program aborted and what it had computed there
    calls,    \* the open build_ast_from_* calls of the parser, outermost first
    trace,    \* the Trace of the Err that is being returned, if any
    printed,  \* what `eprintln!("{trace}")` wrote, if it ran
    pairs     \* number of pest pairs the parser has taken up so far

\* the state of the parser (parsing.rs, error/trace.rs)
parse_ == <<calls, trace, printed, pairs>>

vars_ == <<ast, pc, vars, funs, stack, out, funDecs, varDecs, pos, panic,
           calls, trace, printed, pairs>>

----------------------------------------------------------------------------
(* Bounds of the model *)

MaxStmts == 3      \* statements read in one run
MaxDepth == 2      \* nesting of block constructs
MaxKeyLen == 2     \* length of the keys drawn for match_function
MaxNameLen == 4    \* length of the call names drawn for match_function

----------------------------------------------------------------------------
(* Option and Result values *)

None == [tag |-> "None"]
Some(v) == [tag |-> "Some", val |-> v]

Ok(v) == [tag |-> "Ok", val |-> v]
Abort(line, span, dropped) ==
    [tag |-> "Panic", line |-> line, span |-> span, dropped |-> dropped]

Front(s) == SubSeq(s, 1, Len(s) - 1)
Last(s) == s[Len(s)]
Range(s) == {s[i] : i \in DOMAIN s}

----------------------------------------------------------------------------
(* Strings *)

Dot == "."

t_aron == <<"t", ".", "a", "r", "o", "n">>
ta_ron == <<"t", "a", ".", "r", "o", "n">>
scope == <<"s", "c", "o", "p", "e">>
taron == <<"t", "a", "r", "o", "n">>
tiyaron == <<"t", "ì", "y", "a", "r", "o", "n">>
tayaron == <<"t", "a", "y", "a", "r", "o", "n">>

\* a key with two '.', the names its split at the first '.' gives, and names
\* that other readings of the key would give
a_b_c == <<"a", ".", "b", ".", "c">>
ab_c == <<"a", "b", ".", "c">>
aiyb_c == <<"a", "ì", "y", "b", ".", "c">>
aayb_c == <<"a", "a", "y", "b", ".", "c">>
a_bc == <<"a", ".", "b", "c">>
a_biyc == <<"a", ".", "b", "ì", "y", "c">>
abc == <<"a", "b", "c">>
aiybc == <<"a", "ì", "y", "b", "c">>

\* keys with an empty part and names built around the other part
dot_x == <<".", "x">>
x_dot == <<"x", ".">>
x_only == <<"x">>
iyx == <<"ì", "y", "x">>
ayx == <<"a", "y", "x">>
xiy == <<"x", "ì", "y">>
xay == <<"x", "a", "y">>

\* str::contains('.')
contains(s, c) == \E i \in DOMAIN s : s[i] = c

\* a split at the last occurrence, as str::rsplit_once does
split_once_last(s, c) ==
    IF \E i \in DOMAIN s : s[i] = c
    THEN LET i == CHOOSE j \in DOMAIN s :
                      s[j] = c /\ \A k \in (j + 1)..Len(s) : s[k] # c
         IN  Some(<<SubSeq(s, 1, i - 1), SubSeq(s, i + 1, Len(s))>>)
    ELSE None

\* str::split_once('.'): the parts before and after the first occurrence
split_once(s, c) ==
    IF contains(s, c)
    THEN LET i == CHOOSE j \in DOMAIN s :
                      s[j] = c /\ \A k \in 1..(j - 1) : s[k] # c
         IN  Some(<<SubSeq(s, 1, i - 1), SubSeq(s, i + 1, Len(s))>>)
    ELSE None

----------------------------------------------------------------------------
(* quickscope::ScopeMap as binding.rs uses it.  `map` keeps one entry per  *)
(* key in the order the keys were first defined, each with the stack of    *)
(* its values (innermost last); `layers` keeps for every open layer the    *)
(* indices of the entries it defined.                                      *)

ScopeMap_new == [map |-> <<>>, layers |-> <<{}>>]

\* push_layer that opens no layer
push_layer_none(m) == m

push_layer(m) == [m EXCEPT !.layers = Append(@, {})]

\* pop_layer that drops the layer but leaves the values it defined
pop_layer_keep(m) ==
    IF Len(m.layers) > 1
    THEN [m EXCEPT !.layers = Front(@)]
    ELSE m

\* the bottom layer is never popped
pop_layer(m) ==
    IF Len(m.layers) > 1
    THEN [map |-> [i \in DOMAIN m.map |->
                      IF i \in Last(m.layers) /\ m.map[i].stack # <<>>
                      THEN [m.map[i] EXCEPT !.stack = Front(@)]
                      ELSE m.map[i]],
          layers |-> Front(m.layers)]
    ELSE m

index_of(m, key) ==
    IF \E i \in DOMAIN m.map : m.map[i].key = key
    THEN CHOOSE i \in DOMAIN m.map : m.map[i].key = key
    ELSE Len(m.map) + 1

\* define that replaces the visible value of a key wherever it was defined
define_overwrite(m, key, value) ==
    LET i == index_of(m, key)
        top == Len(m.layers)
    IN  IF i <= Len(m.map) /\ m.map[i].stack # <<>>
        THEN [m EXCEPT !.map[i].stack[Len(m.map[i].stack)] = value]
        ELSE [map |-> IF i > Len(m.map)
                      THEN Append(m.map, [key |-> key, stack |-> <<value>>])
                      ELSE [m.map EXCEPT ![i].stack = <<value>>],
              layers |-> [m.layers EXCEPT ![top] = @ \cup {i}]]

\* define that pushes a new value even when the top layer defined the key
define_push(m, key, value) ==
    LET i == index_of(m, key)
        top == Len(m.layers)
        map1 == IF i > Len(m.map)
                THEN Append(m.map, [key |-> key, stack |-> <<>>])
                ELSE m.map
    IN  [map |-> [map1 EXCEPT ![i].stack = Append(@, value)],
         layers |-> [m.layers EXCEPT ![top] = @ \cup {i}]]

define(m, key, value) ==
    LET i == index_of(m, key)
        top == Len(m.layers)
        map1 == IF i > Len(m.map)
                THEN Append(m.map, [key |-> key, stack |-> <<>>])
                ELSE m.map
    IN  IF i \in m.layers[top]
        THEN [m EXCEPT !.map[i].stack[Len(m.map[i].stack)] = value]
        ELSE [map |-> [map1 EXCEPT ![i].stack = Append(@, value)],
              layers |-> [m.layers EXCEPT ![top] = @ \cup {i}]]

RECURSIVE define_all(_, _, _)
define_all(m, keys, value) ==
    IF keys = <<>> THEN m
    ELSE define_all(define(m, Head(keys), value), Tail(keys), value)

get(m, key) ==
    LET i == index_of(m, key)
    IN  IF i <= Len(m.map) /\ m.map[i].stack # <<>>
        THEN Some(Last(m.map[i].stack))
        ELSE None

\* the (key, value) pairs in the order iter() yields them
RECURSIVE iter_from(_, _)
iter_from(m, i) ==
    IF i > Len(m.map) THEN <<>>
    ELSE IF m.map[i].stack # <<>>
         THEN <<[key |-> m.map[i].key, value |-> Last(m.map[i].stack)]>>
                  \o iter_from(m, i + 1)
         ELSE iter_from(m, i + 1)

iter(m) == iter_from(m, 1)

----------------------------------------------------------------------------
(* match_function *)

Present == "Present"
Imminent == "Imminent"
Future == "Future"

\* match_key with the infixes of Imminent and Future exchanged
match_key_swapped(key, fun, name) ==
    IF contains(key, Dot)
    THEN LET lr == split_once(key, Dot).val
             left == lr[1]
             right == lr[2]
         IN  IF left \o right = name
             THEN Some([tense |-> Present, dec |-> fun])
             ELSE IF left \o <<"a", "y">> \o right = name
             THEN Some([tense |-> Imminent, dec |-> fun])
             ELSE IF left \o <<"ì", "y">> \o right = name
             THEN Some([tense |-> Future, dec |-> fun])
             ELSE None
    ELSE IF key = name THEN Some([tense |-> Present, dec |-> fun]) ELSE None

\* the closure given to find_map (binding.rs:208-224)
match_key(key, fun, name) ==
    IF contains(key, Dot)
    THEN LET lr == split_once(key, Dot).val
             left == lr[1]
             right == lr[2]
         IN  IF left \o right = name
             THEN Some([tense |-> Present, dec |-> fun])
             ELSE IF left \o <<"ì", "y">> \o right = name
             THEN Some([tense |-> Imminent, dec |-> fun])
             ELSE IF left \o <<"a", "y">> \o right = name
             THEN Some([tense |-> Future, dec |-> fun])
             ELSE None
    ELSE IF key = name THEN Some([tense |-> Present, dec |-> fun]) ELSE None

RECURSIVE find_map(_, _)
find_map(items, name) ==
    IF items = <<>> THEN None
    ELSE LET r == match_key(Head(items).key, Head(items).value, name)
         IN  IF r.tag = "Some" THEN r ELSE find_map(Tail(items), name)

match_function(name, m) == find_map(iter(m), name)

----------------------------------------------------------------------------
(* Parse-level nodes (parsing::Expr and parsing::Statement in an AyNode) *)

PNumber(n, span) == [span |-> span, inner |-> [x |-> "Number", n |-> n]]
PString(s, span) == [span |-> span, inner |-> [x |-> "String", s |-> s]]
PIdent(name, span) == [span |-> span, inner |-> [x |-> "Ident", name |-> name]]
PNegated(e, span) == [span |-> span, inner |-> [x |-> "Negated", e |-> e]]
PFunCall(name, args, span) ==
    [span |-> span, inner |-> [x |-> "FunCall", name |-> name, args |-> args]]

\* The statements as they are read: a block statement is read up to the
\* start of its block, the statements of the block follow, then TEnd (for
\* an If, the then branch, TEnd, the otherwise branch, TEnd).
TVarDec(names, values) == [s |-> "VarDec", names |-> names, values |-> values]
TFunDec(name, args) == [s |-> "FunDec", name |-> name, args |-> args]
TIf(cond) == [s |-> "If", cond |-> cond]
TLoop(cond) == [s |-> "Loop", cond |-> cond]
TExpr(expr) == [s |-> "Expr", expr |-> expr]
TEnd == [s |-> "End"]

(* Bound nodes (binding::Expr and binding::Statement in an AyNode) *)

Number(n, span) == [span |-> span, inner |-> [x |-> "Number", n |-> n]]
Var(rc, span) == [span |-> span, inner |-> [x |-> "Var", rc |-> rc]]
FunCall(tense, dec, name, args, span) ==
    [span |-> span,
     inner |-> [x |-> "FunCall", tense |-> tense, dec |-> dec,
                name |-> name, args |-> args]]

SFunDec(rc, span) == [span |-> span, inner |-> [s |-> "FunDec", rc |-> rc]]
SVarDec(rc, span) == [span |-> span, inner |-> [s |-> "VarDec", rc |-> rc]]
SExpr(e, span) == [span |-> span, inner |-> [s |-> "Expr", e |-> e]]
SIf(cond, then, otherwise, span) ==
    [span |-> span,
     inner |-> [s |-> "If", cond |-> cond, then |-> then,
                otherwise |-> otherwise]]
SLoop(cond, body, span) ==
    [span |-> span, inner |-> [s |-> "Loop", cond |-> cond, body |-> body]]

----------------------------------------------------------------------------
(* convert_expr.  Every path ends in todo!(): an arm of the match either   *)
(* panics itself or builds a node that is dropped at the `;` of line 203,  *)
(* after which line 204 panics.  The result records the line of the panic, *)
(* the span of the node being converted and the node that was dropped.     *)

RECURSIVE convert_expr(_, _, _)
RECURSIVE convert_all_expr(_, _, _)

convert_expr(node, vs, fs) ==
    LET span == node.span
        inner == node.inner
    IN  IF inner.x = "Ident"
        THEN LET rc == get(vs, inner.name)
             IN  IF rc.tag = "Some"
                 THEN Abort(204, span, Some(Var(rc.val, span)))
                 ELSE Abort(187, span, None)
        ELSE IF inner.x = "FunCall"
        THEN LET m == match_function(inner.name, fs)
             IN  IF m.tag = "Some"
                 THEN LET args == convert_all_expr(inner.args, vs, fs)
                      IN  IF args.tag = "Panic"
                          THEN args
                          ELSE Abort(204, span,
                                     Some(FunCall(m.val.tense, m.val.dec,
                                                  inner.name, args.val, span)))
                 ELSE Abort(200, span, None)
        ELSE Abort(202, span, None)

\* the convert! macro on expressions: map in order and collect
convert_all_expr(nodes, vs, fs) ==
    IF nodes = <<>> THEN Ok(<<>>)
    ELSE LET r == convert_expr(Head(nodes), vs, fs)
         IN  IF r.tag = "Panic" THEN r
             ELSE LET rest == convert_all_expr(Tail(nodes), vs, fs)
                  IN  IF rest.tag = "Panic" THEN rest
                      ELSE Ok(<<r.val>> \o rest.val)

----------------------------------------------------------------------------
(* The statements and expressions a run may read *)

VarNames == {"a", "b", "x"}
IdentNames == {"a", "x"}
NameLists == {<<>>, <<"a">>, <<"a", "b">>}
ArgLists == {<<>>, <<"x">>}
FunKeys == {t_aron, scope}
CallNames == {taron, tiyaron, tayaron, t_aron, scope}

ArgExprs(span) ==
    {<<>>, <<PNumber(5, span \o <<1>>)>>, <<PIdent("a", span \o <<1>>)>>}

Exprs(span) ==
    {PIdent(n, span) : n \in IdentNames}
        \cup {PNumber(5, span), PString("s", span),
              PNegated(PNumber(5, span \o <<1>>), span)}
        \cup {PFunCall(n, a, span) : n \in CallNames, a \in ArgExprs(span)}

ValueLists(span) ==
    {<<>>, <<PNumber(5, span \o <<1>>)>>, <<PIdent("a", span \o <<1>>)>>,
     <<PNumber(5, span \o <<1>>), PNumber(7, span \o <<2>>)>>}

----------------------------------------------------------------------------
(* convert and convert_statement *)

Init ==
    /\ ast = <<>>
    /\ pc = "run"
    /\ vars = ScopeMap_new
    /\ funs = ScopeMap_new
    /\ stack = <<>>
    /\ out = <<>>
    /\ funDecs = <<>>
    /\ varDecs = <<>>
    /\ pos = 0
    /\ panic = None
    /\ calls = <<>>
    /\ trace = None
    /\ printed = None
    /\ pairs = 0

\* the statement vector being collected by the innermost open convert!
Collect(stk, o, node) ==
    IF stk = <<>>
    THEN [stack |-> stk, out |-> Append(o, node)]
    ELSE [stack |-> [stk EXCEPT ![Len(stk)].body = Append(@, node)], out |-> o]

\* convert_statement takes up the next statement of the innermost open block
Take(statement) ==
    /\ pc = "run"
    /\ pos < MaxStmts
    /\ pos' = pos + 1
    /\ ast' = Append(ast, statement)
    /\ UNCHANGED parse_

Panics(r) ==
    /\ pc' = "abort"
    /\ panic' = r
    /\ UNCHANGED <<vars, funs, stack, out, funDecs, varDecs>>

\* wrap_scope! that pushes a second layer on vars
Enter_twice(frame) ==
    /\ vars' = push_layer(push_layer(vars))
    /\ funs' = push_layer(funs)
    /\ stack' = Append(stack, frame)
    /\ UNCHANGED <<pc, out, funDecs, varDecs, panic>>

\* wrap_scope! that pushes a layer on vars only
Enter_vars_only(frame) ==
    /\ vars' = push_layer(vars)
    /\ funs' = funs
    /\ stack' = Append(stack, frame)
    /\ UNCHANGED <<pc, out, funDecs, varDecs, panic>>

\* wrap_scope!(vars, funs | ...): the layers pushed before the block
Enter(frame) ==
    /\ vars' = push_layer(vars)
    /\ funs' = push_layer(funs)
    /\ stack' = Append(stack, frame)
    /\ UNCHANGED <<pc, out, funDecs, varDecs, panic>>

\* VarDec that defines its names before it converts its values
VarDecStmt_define_first(names, values) ==
    /\ Take(TVarDec(names, values))
    /\ LET span == <<pos + 1>>
           var_dec == Len(varDecs) + 1
           defined == define_all(vars, names, var_dec)
           vals == convert_all_expr(values, defined, funs)
       IN  IF vals.tag = "Panic"
           THEN Panics(vals)
           ELSE LET c == Collect(stack, out, SVarDec(var_dec, span))
                IN  /\ varDecs' = Append(varDecs,
                                         [names |-> names, values |-> vals.val])
                    /\ vars' = defined
                    /\ stack' = c.stack
                    /\ out' = c.out
                    /\ UNCHANGED <<pc, funs, funDecs, panic>>

\* PStatement::VarDec (binding.rs:118-132)
VarDecStmt(names, values) ==
    /\ Take(TVarDec(names, values))
    /\ LET span == <<pos + 1>>
           vals == convert_all_expr(values, vars, funs)
       IN  IF vals.tag = "Panic"
           THEN Panics(vals)
           ELSE LET var_dec == Len(varDecs) + 1
                    c == Collect(stack, out, SVarDec(var_dec, span))
                IN  /\ varDecs' = Append(varDecs,
                                         [names |-> names, values |-> vals.val])
                    /\ vars' = define_all(vars, names, var_dec)
                    /\ stack' = c.stack
                    /\ out' = c.out
                    /\ UNCHANGED <<pc, funs, funDecs, panic>>

\* PStatement::FunDec up to the start of its body (binding.rs:133-137)
FunDecStmt(name, args) ==
    /\ Take(TFunDec(name, args))
    /\ Len(stack) < MaxDepth
    /\ Enter([kind |-> "FunDec", span |-> <<pos + 1>>, name |-> name,
              args |-> args, body |-> <<>>])

\* PStatement::If up to the start of its then branch (binding.rs:147-155)
IfStmt(cond) ==
    /\ Take(TIf(cond))
    /\ LET c == convert_expr(cond, vars, funs)
       IN  IF c.tag = "Panic"
           THEN Panics(c)
           ELSE Enter([kind |-> "Then", span |-> <<pos + 1>>, cond |-> c.val,
                       body |-> <<>>])

\* PStatement::Loop up to the start of its body (binding.rs:159-163)
LoopStmt(cond) ==
    /\ Take(TLoop(cond))
    /\ cond.tag = "None" => Len(stack) < MaxDepth
    /\ LET c == IF cond.tag = "Some"
                THEN convert_expr(cond.val, vars, funs)
                ELSE Ok(None)
       IN  IF c.tag = "Panic"
           THEN Panics(c)
           ELSE Enter([kind |-> "Loop", span |-> <<pos + 1>>,
                       cond |-> IF cond.tag = "Some" THEN Some(c.val) ELSE None,
                       body |-> <<>>])

\* PStatement::Expr (binding.rs:166-169)
ExprStmt(expr) ==
    /\ Take(TExpr(expr))
    /\ LET e == convert_expr(expr, vars, funs)
       IN  IF e.tag = "Panic"
           THEN Panics(e)
           ELSE LET c == Collect(stack, out, SExpr(e.val, <<pos + 1>>))
                IN  /\ stack' = c.stack
                    /\ out' = c.out
                    /\ UNCHANGED <<pc, vars, funs, funDecs, varDecs, panic>>

\* The block of the innermost open statement has no statement left: the
\* layers of wrap_scope! are popped and the statement is completed.
Leave ==
    /\ pc = "run"
    /\ stack # <<>>
    /\ ast' = Append(ast, TEnd)
    /\ UNCHANGED parse_
    /\ LET f == Last(stack)
           vs == pop_layer(vars)
           fs == pop_layer(funs)
           rest == Front(stack)
       IN  IF f.kind = "FunDec"
           THEN LET fun_dec == Len(funDecs) + 1
                    c == Collect(rest, out, SFunDec(fun_dec, f.span))
                IN  /\ funDecs' = Append(funDecs,
                                         [name |-> f.name, args |-> f.args,
                                          body |-> f.body])
                    /\ vars' = vs
                    /\ funs' = define(fs, f.name, fun_dec)
                    /\ stack' = c.stack
                    /\ out' = c.out
                    /\ UNCHANGED <<pc, varDecs, pos, panic>>
           ELSE IF f.kind = "Loop"
           THEN LET c == Collect(rest, out, SLoop(f.cond, f.body, f.span))
                IN  /\ vars' = vs
                    /\ funs' = fs
                    /\ stack' = c.stack
                    /\ out' = c.out
                    /\ UNCHANGED <<pc, funDecs, varDecs, pos, panic>>
           ELSE IF f.kind = "Then"
           THEN /\ vars' = push_layer(vs)
                /\ funs' = push_layer(fs)
                /\ stack' = Append(rest, [kind |-> "Otherwise", span |-> f.span,
                                          cond |-> f.cond, then |-> f.body,
                                          body |-> <<>>])
                /\ UNCHANGED <<pc, out, funDecs, varDecs, pos, panic>>
           ELSE LET c == Collect(rest, out,
                                 SIf(f.cond, f.then, f.body, f.span))
                IN  /\ vars' = vs
                    /\ funs' = fs
                    /\ stack' = c.stack
                    /\ out' = c.out
                    /\ UNCHANGED <<pc, funDecs, varDecs, pos, panic>>

\* the iterator returned by convert is exhausted (binding.rs:82-83)
Finish ==
    /\ pc = "run"
    /\ stack = <<>>
    /\ pc' = "done"
    /\ UNCHANGED <<ast, vars, funs, stack, out, funDecs, varDecs, pos, panic>>
    /\ UNCHANGED parse_

BindVarDec == \E names \in NameLists : \E values \in ValueLists(<<pos + 1>>) :
                  VarDecStmt(names, values)
BindFunDec == \E name \in FunKeys : \E args \in ArgLists : FunDecStmt(name, args)
BindIf == \E cond \in Exprs(<<pos + 1, 1>>) : IfStmt(cond)
BindLoop == \E cond \in {None} \cup {Some(e) : e \in Exprs(<<pos + 1, 1>>)} :
                LoopStmt(cond)
BindExpr == \E expr \in Exprs(<<pos + 1, 1>>) : ExprStmt(expr)

Next ==
    \/ BindVarDec
    \/ BindFunDec
    \/ BindIf
    \/ BindLoop
    \/ BindExpr
    \/ Leave
    \/ Finish

Spec == Init /\ [][Next]_vars_

----------------------------------------------------------------------------
(* convert on trees of declarations: VarDecs without values, FunDecs and   *)
(* Loops without a condition, the statements that are bound to the end.    *)
(* The keys include two that answer the same call names, the name lists    *)
(* one that names a variable twice.                                        *)

DeclKeys == {t_aron, ta_ron, scope}
DeclNames == NameLists \cup {<<"a", "a">>}

DeclVarDec == \E names \in DeclNames : VarDecStmt(names, <<>>)
DeclFunDec == \E name \in DeclKeys : \E args \in ArgLists : FunDecStmt(name, args)
DeclLoop == LoopStmt(None)

DeclNext ==
    \/ DeclVarDec
    \/ DeclFunDec
    \/ DeclLoop
    \/ Leave
    \/ Finish

DeclSpec == Init /\ [][DeclNext]_vars_

----------------------------------------------------------------------------
(* match_function on every short key and call name.  MatchInit is the      *)
(* state of a run that has bound the one top-level statement               *)
(* `fn key() {}`; MatchNext binds a call of one name after it.             *)

Chars == {".", "a", "y", "ì"}
\* the strings of at most n characters
RECURSIVE Strings(_)
Strings(n) ==
    IF n = 0 THEN {<<>>}
    ELSE LET shorter == Strings(n - 1)
         IN  shorter \cup {Append(s, c) : s \in shorter, c \in Chars}

ProbeKeys == Strings(MaxKeyLen) \cup {t_aron, scope, a_b_c, dot_x, x_dot}
ProbeNames ==
    Strings(MaxNameLen)
        \cup {taron, tiyaron, tayaron, t_aron, ta_ron, scope}
        \cup {a_b_c, ab_c, aiyb_c, aayb_c, a_bc, a_biyc, abc, aiybc}
        \cup {dot_x, x_dot, x_only, iyx, ayx, xiy, xay}

MatchInit ==
    \E key \in ProbeKeys :
        /\ ast = <<TFunDec(key, <<>>), TEnd>>
        /\ pc = "run"
        /\ vars = ScopeMap_new
        /\ funs = define(ScopeMap_new, key, 1)
        /\ stack = <<>>
        /\ out = <<SFunDec(1, <<1>>)>>
        /\ funDecs = <<[name |-> key, args |-> <<>>, body |-> <<>>]>>
        /\ varDecs = <<>>
        /\ pos = 1
        /\ panic = None
        /\ calls = <<>>
        /\ trace = None
        /\ printed = None
        /\ pairs = 0

MatchNext == \E name \in ProbeNames : ExprStmt(PFunCall(name, <<>>, <<pos + 1, 1>>))

MatchSpec == MatchInit /\ [][MatchNext]_vars_

----------------------------------------------------------------------------
(* Properties *)

\* the keys a scope map makes visible
VisibleKeys(m) == {it.key : it \in Range(iter(m))}

DotCount(s) == Cardinality({i \in DOMAIN s : s[i] = Dot})

\* The call names the stated rule lets a key with at most one '.' answer,
\* each with its tense.
RuleForms(key) ==
    IF DotCount(key) = 0
    THEN {[name |-> key, tense |-> Present]}
    ELSE LET i == CHOOSE j \in DOMAIN key : key[j] = Dot
             L == SubSeq(key, 1, i - 1)
             R == SubSeq(key, i + 1, Len(key))
         IN  {[name |-> L \o R, tense |-> Present],
              [name |-> L \o <<"ì", "y">> \o R, tense |-> Imminent],
              [name |-> L \o <<"a", "y">> \o R, tense |-> Future]}

\* what the call read last was matched to: none if the binder stopped at the
\* None arm of line 200, else the tense and dec of the FunCall it built
Matched ==
    IF panic.line = 200 THEN None
    ELSE Some([tense |-> panic.dropped.val.inner.tense,
               dec |-> panic.dropped.val.inner.dec])

\* C1: when every visible function key has at most one '.', a call is matched
\* exactly when some visible key has the call name among its forms (the key
\* itself if it has no '.', else L+R, L+"ìy"+R, L+"ay"+R), with the tense of
\* that form and the declaration of that key; and with only "t.aron" visible,
\* "taron", "tìyaron" and "tayaron" give its declaration with Present,
\* Imminent and Future, and every other name gives none.
C1_TenseRule ==
    (pc = "abort" /\ \A key \in VisibleKeys(funs) : DotCount(key) <= 1) =>
        LET name == Last(ast).expr.inner.name
            answers == {it \in Range(iter(funs)) :
                           \E f \in RuleForms(it.key) : f.name = name}
        IN  /\ Matched = match_function(name, funs)
            /\ (Matched = None) <=> (answers = {})
            /\ Matched # None =>
                  \E it \in answers :
                      /\ Matched.val.dec = it.value
                      /\ [name |-> name, tense |-> Matched.val.tense]
                             \in RuleForms(it.key)
            /\ VisibleKeys(funs) = {t_aron} =>
                  LET dec == get(funs, t_aron).val
                  IN  Matched =
                          IF name = taron
                          THEN Some([tense |-> Present, dec |-> dec])
                          ELSE IF name = tiyaron
                          THEN Some([tense |-> Imminent, dec |-> dec])
                          ELSE IF name = tayaron
                          THEN Some([tense |-> Future, dec |-> dec])
                          ELSE None

\* a call "tìyaron" was matched against the one key "t.aron" as Imminent
C1_Witness ==
    /\ VisibleKeys(funs) = {t_aron}
    /\ pc = "abort"
    /\ panic.dropped # None
    /\ panic.dropped.val.inner.x = "FunCall"
    /\ panic.dropped.val.inner.name = tiyaron
    /\ panic.dropped.val.inner.tense = Imminent
    /\ panic.dropped.val.inner.dec = get(funs, t_aron).val

----------------------------------------------------------------------------
(* The declarations of the bound tree, by block *)

\* the statement vectors still being collected, outermost first: the
\* top-level one and the body of every open block
OpenBodies == <<out>> \o [i \in 1..Len(stack) |-> stack[i].body]

\* the statements of a vector and of the Loop and If blocks nested in it
RECURSIVE NodesIn(_)
NodesIn(body) ==
    IF body = <<>> THEN {}
    ELSE LET n == Head(body)
             below == IF n.inner.s = "Loop" THEN NodesIn(n.inner.body)
                      ELSE IF n.inner.s = "If"
                      THEN NodesIn(n.inner.then) \cup NodesIn(n.inner.otherwise)
                      ELSE {}
         IN  {n} \cup below \cup NodesIn(Tail(body))

\* the statements of the blocks that are closed: the bodies of the FunDec
\* objects and the blocks of the Loop and If statements already collected
ClosedNodes ==
    UNION {NodesIn(funDecs[i].body) : i \in DOMAIN funDecs}
        \cup UNION {NodesIn(OpenBodies[i]) \ Range(OpenBodies[i]) :
                        i \in DOMAIN OpenBodies}

VarsOf(nodes) ==
    UNION {Range(varDecs[n.inner.rc].names) : n \in {m \in nodes : m.inner.s = "VarDec"}}
FunsOf(nodes) ==
    {funDecs[n.inner.rc].name : n \in {m \in nodes : m.inner.s = "FunDec"}}

\* the names declared directly in an open block
OpenVars == UNION {VarsOf(Range(OpenBodies[i])) : i \in DOMAIN OpenBodies}
OpenFuns == UNION {FunsOf(Range(OpenBodies[i])) : i \in DOMAIN OpenBodies}

Answers(key, name) == \E f \in RuleForms(key) : f.name = name

\* the last declaration of a variable name in a statement vector
LastVarDec(body, name) ==
    LET at == {i \in DOMAIN body :
                  /\ body[i].inner.s = "VarDec"
                  /\ name \in Range(varDecs[body[i].inner.rc].names)}
    IN  IF at = {} THEN None
        ELSE Some(body[CHOOSE i \in at : \A j \in at : j <= i].inner.rc)

LastFunDec(body, key) ==
    LET at == {i \in DOMAIN body :
                  /\ body[i].inner.s = "FunDec"
                  /\ funDecs[body[i].inner.rc].name = key}
    IN  IF at = {} THEN None
        ELSE Some(body[CHOOSE i \in at : \A j \in at : j <= i].inner.rc)

\* the declaration of the innermost open block that declares the name
RECURSIVE InnermostVar(_, _)
InnermostVar(i, name) ==
    IF i = 0 THEN None
    ELSE IF LastVarDec(OpenBodies[i], name) # None
         THEN LastVarDec(OpenBodies[i], name)
         ELSE InnermostVar(i - 1, name)

RECURSIVE InnermostFun(_, _)
InnermostFun(i, key) ==
    IF i = 0 THEN None
    ELSE IF LastFunDec(OpenBodies[i], key) # None
         THEN LastFunDec(OpenBodies[i], key)
         ELSE InnermostFun(i - 1, key)

\* what funs.iter() yields for a key
FunLookup(key) ==
    LET its == {it \in Range(iter(funs)) : it.key = key}
    IN  IF its = {} THEN None ELSE Some((CHOOSE it \in its : TRUE).value)

Spellings == {taron, tiyaron, tayaron}

\* C2: once no open layer holds a key that answers them, "taron", "tìyaron"
\* and "tayaron" are matched by nothing, in particular after the layer in which
\* "t.aron" was defined is popped; and every key declared in a layer that is
\* still open is matched by its own present spelling.
C2_PoppedTenseForms ==
    /\ (\A key \in OpenFuns : \A name \in Spellings : ~Answers(key, name)) =>
           \A name \in Spellings : match_function(name, funs) = None
    /\ \A key \in OpenFuns :
           \E f \in RuleForms(key) :
               /\ f.tense = Present
               /\ match_function(f.name, funs) # None
               /\ funDecs[match_function(f.name, funs).val.dec].name \in OpenFuns

\* "t.aron" was declared in the body of "scope", that body is closed, and
\* "scope" is still declared
C2_Witness ==
    /\ pc = "run"
    /\ stack = <<>>
    /\ t_aron \in FunsOf(ClosedNodes)
    /\ OpenFuns = {scope}
    /\ match_function(scope, funs) # None
    /\ match_function(tiyaron, funs) = None

\* C3: a lookup of a variable name, and the entry funs yields for a function
\* key, is the declaration of the innermost open layer that declares it: the
\* inner one while the inner layer is open, the outer one again once it is
\* popped.
C3_Shadowing ==
    /\ \A name \in VarNames : get(vars, name) = InnermostVar(Len(OpenBodies), name)
    /\ \A key \in FunKeys : FunLookup(key) = InnermostFun(Len(OpenBodies), key)

\* "a" was declared at the top level and again in a block that is closed, and
\* the lookup gives the top-level declaration
C3_Witness ==
    /\ pc = "run"
    /\ stack = <<>>
    /\ "a" \in VarsOf(ClosedNodes)
    /\ LastVarDec(out, "a") # None
    /\ get(vars, "a") = LastVarDec(out, "a")
    /\ \E n \in ClosedNodes :
           /\ n.inner.s = "VarDec"
           /\ "a" \in Range(varDecs[n.inner.rc].names)
           /\ n.inner.rc # get(vars, "a").val

\* C4: a variable name declared only in blocks that are closed has no visible
\* declaration and an Ident of it is not bound; a function key declared only in
\* closed blocks answers no call name, unless a key of an open block answers
\* that name.
C4_ScopeEscape ==
    /\ \A name \in VarsOf(ClosedNodes) \ OpenVars :
           /\ get(vars, name) = None
           /\ convert_expr(PIdent(name, <<pos + 1, 1>>), vars, funs).dropped = None
    /\ \A key \in FunsOf(ClosedNodes) \ OpenFuns :
           \A f \in RuleForms(key) :
               (\A open \in OpenFuns : ~Answers(open, f.name)) =>
                   /\ match_function(f.name, funs) = None
                   /\ convert_expr(PFunCall(f.name, <<>>, <<pos + 1, 1>>),
                                   vars, funs).dropped = None

\* after a Loop whose body declared "a", a top-level statement that names
\* "a" found no declaration
C4_Witness ==
    /\ pc = "abort"
    /\ panic.line = 187
    /\ stack = <<>>
    /\ "a" \in VarsOf(ClosedNodes) \ OpenVars
    /\ \E n \in Range(out) : n.inner.s = "Loop" /\ n.inner.body # <<>>

----------------------------------------------------------------------------
(* Outcomes of whole runs *)

IsPrefix(s, t) == Len(s) <= Len(t) /\ s = SubSeq(t, 1, Len(s))

\* every statement node of the bound tree built so far
AllNodes ==
    ClosedNodes \cup UNION {Range(OpenBodies[i]) : i \in DOMAIN OpenBodies}

IsLiteral(e) == e.inner.x \in {"Number", "String"}

\* C5: an If is bound branch by branch, each branch in a layer of its own: the
\* binding of an If whose condition is a literal goes on into its branches,
\* and while the otherwise branch is bound no name that only the then branch
\* declared is visible in vars or in funs.
C5_BranchIsolation ==
    /\ ~(pc = "abort" /\ ast # <<>> /\ Last(ast).s = "If" /\ IsLiteral(Last(ast).cond))
    /\ \A i \in DOMAIN stack :
           stack[i].kind = "Otherwise" =>
               /\ \A name \in VarsOf(Range(stack[i].then)) \ OpenVars :
                      get(vars, name) = None
               /\ \A key \in FunsOf(Range(stack[i].then)) \ OpenFuns :
                      FunLookup(key) = None

\* fn t.aron(x) { x }   tìyaron(5)
EndToEnd ==
    <<TFunDec(t_aron, <<"x">>),
      TExpr(PIdent("x", <<2, 1>>)),
      TEnd,
      TExpr(PFunCall(tiyaron, <<PNumber(5, <<3, 1, 1>>)>>, <<3, 1>>))>>

\* C6: a run that reads `fn t.aron(x) { x }` and then `tìyaron(5)` does not
\* abort; when both are read the body holds a bound Var for x and the second
\* statement is a FunCall with tense Imminent whose dec is the FunDec object
\* of the first.
C6_EndToEnd ==
    IsPrefix(ast, EndToEnd) =>
        /\ pc # "abort"
        /\ ast = EndToEnd =>
              /\ Len(out) = 2
              /\ out[1] = SFunDec(1, <<1>>)
              /\ funDecs[1].name = t_aron
              /\ Len(funDecs[1].body) = 1
              /\ funDecs[1].body[1].inner.s = "Expr"
              /\ funDecs[1].body[1].inner.e.inner.x = "Var"
              /\ out[2] = SExpr(FunCall(Imminent, 1, tiyaron,
                                        <<Number(5, <<3, 1, 1>>)>>, <<3, 1>>),
                                <<3>>)

\* C7: a call whose name no visible key answers (as when it precedes the
\* only FunDec it could match) ends the binding with an error result, never
\* with an abort of the program.
C7_UnresolvedFunction ==
    ~(/\ pc = "abort"
      /\ panic.line = 200
      /\ match_function(taron, funs) = None
      /\ Last(ast) \in {TExpr(PFunCall(taron, a, <<pos, 1>>)) : a \in ArgExprs(<<pos, 1>>)})

\* C8: an Ident whose name no layer of vars defines ends the binding with an
\* error result, never with an abort of the program.
C8_UnresolvedVariable ==
    ~(/\ pc = "abort"
      /\ panic.line = 187
      /\ Last(ast).s = "Expr"
      /\ Last(ast).expr.inner.x = "Ident"
      /\ get(vars, Last(ast).expr.inner.name) = None)

\* C9: a VarDec whose names and values differ in number is refused: no
\* VarDec object with differing numbers is created, and no name is defined
\* to such an object.
C9_ArityMismatch ==
    /\ \A i \in DOMAIN varDecs : Len(varDecs[i].names) = Len(varDecs[i].values)
    /\ \A name \in VarNames :
           get(vars, name) # None =>
               Len(varDecs[get(vars, name).val].names)
                   = Len(varDecs[get(vars, name).val].values)

\* C10: every call site that resolves to a declaration stays in the bound
\* tree as a FunCall node, and the dec of each such node is the object held by
\* a Statement::FunDec node whose key answers the call name, so that two call
\* sites of one declaration hold the same object.
C10_IdentitySharing ==
    /\ ~(/\ pc = "abort"
         /\ Last(ast).s = "Expr"
         /\ panic.dropped # None
         /\ panic.dropped.val.inner.x = "FunCall")
    /\ \A n \in AllNodes :
           (n.inner.s = "Expr" /\ n.inner.e.inner.x = "FunCall") =>
               \E d \in AllNodes :
                   /\ d.inner.s = "FunDec"
                   /\ d.inner.rc = n.inner.e.inner.dec
                   /\ Answers(funDecs[d.inner.rc].name, n.inner.e.inner.name)

----------------------------------------------------------------------------
(* Declarations with values, calls in bodies, runs that stop *)

\* C11: a VarDec with n names and n values (n at least 1, the values
\* literals) is bound without an abort into exactly one VarDec object holding
\* the n names and the n converted values, and every one of the n names is
\* then looked up to that one object.
C11_ParallelDeclaration ==
    /\ ~(/\ pc = "abort"
         /\ Last(ast).s = "VarDec"
         /\ Len(Last(ast).names) >= 1
         /\ Len(Last(ast).names) = Len(Last(ast).values)
         /\ \A i \in DOMAIN Last(ast).values : IsLiteral(Last(ast).values[i]))
    /\ (/\ pc = "run"
        /\ ast # <<>>
        /\ Last(ast).s = "VarDec"
        /\ Len(Last(ast).names) >= 1
        /\ Len(Last(ast).names) = Len(Last(ast).values)) =>
           /\ Len(varDecs[Len(varDecs)].values) = Len(Last(ast).names)
           /\ \A i \in DOMAIN Last(ast).names :
                  get(vars, Last(ast).names[i]) = Some(Len(varDecs))

\* C12: while the body of a FunDec is being bound, the present spelling of
\* its key is matched, and matched to the declaration of that FunDec itself
\* (an object no earlier statement created); a call of that spelling in the
\* body does not stop the binding as an unmatched call.
C12_RecursiveVisibility ==
    /\ \A i \in DOMAIN stack :
           stack[i].kind = "FunDec" =>
               \A f \in RuleForms(stack[i].name) :
                   f.tense = Present =>
                       /\ match_function(f.name, funs) # None
                       /\ match_function(f.name, funs).val.dec \notin DOMAIN funDecs
    /\ ~(/\ pc = "abort"
         /\ panic.line = 200
         /\ stack # <<>>
         /\ Last(stack).kind = "FunDec"
         /\ Last(ast).s = "Expr"
         /\ Last(ast).expr.inner.x = "FunCall"
         /\ Answers(Last(stack).name, Last(ast).expr.inner.name))

\* a VarDec statement whose names and values differ in number
Mismatched(t) == t.s = "VarDec" /\ Len(t.names) # Len(t.values)

\* C13: the first statement with an unresolved reference or with names and
\* values that differ in number ends the binding: it is the last statement
\* read, nothing is read after it, and at most one failure is recorded.
C13_SingleError ==
    /\ \A i \in 1..(Len(ast) - 1) : ~Mismatched(ast[i])
    /\ \A i \in 1..(Len(ast) - 1) :
           ast[i].s \notin {"Expr", "If"}
    /\ pc = "abort" => panic.tag = "Panic"
    /\ pc # "abort" => panic = None

----------------------------------------------------------------------------
(* Layers *)

\* the number of layers of a scope map, the base layer included
depth(m) == Len(m.layers)

\* C15: both scope maps have exactly one layer above the base layer for every
\* block that is open, so a statement that is completed leaves the depth it
\* found, a block pops only the layer it pushed, and when the whole statement
\* sequence is bound the depth of both is the initial depth again.
C15_BalancedLayers ==
    /\ depth(vars) = depth(ScopeMap_new) + Len(stack)
    /\ depth(funs) = depth(ScopeMap_new) + Len(stack)
    /\ pc = "done" => depth(vars) = depth(ScopeMap_new)
                      /\ depth(funs) = depth(ScopeMap_new)

\* a run is complete that bound a function whose body holds a loop with a
\* statement in it
C15_Witness ==
    /\ pc = "done"
    /\ depth(vars) = depth(ScopeMap_new)
    /\ depth(funs) = depth(ScopeMap_new)
    /\ \E n \in Range(out) :
           /\ n.inner.s = "FunDec"
           /\ \E b \in Range(funDecs[n.inner.rc].body) :
                  b.inner.s = "Loop" /\ b.inner.body # <<>>

----------------------------------------------------------------------------
(* Keys of several layers that answer one call name *)

\* the open blocks, by depth, that declare a key answering the call name
AnsweringLayers(name) ==
    {i \in DOMAIN OpenBodies :
        \E key \in FunsOf(Range(OpenBodies[i])) : Answers(key, name)}

\* C16: when keys of open layers answer a call name, match_function gives a
\* declaration made in the innermost of those layers, whatever the order in
\* which the keys were first defined.
C16_InnermostWins ==
    \A name \in Spellings :
        AnsweringLayers(name) # {} =>
            LET top == CHOOSE i \in AnsweringLayers(name) :
                           \A j \in AnsweringLayers(name) : j <= i
                m == match_function(name, funs)
            IN  /\ m # None
                /\ \E n \in Range(OpenBodies[top]) :
                       /\ n.inner.s = "FunDec"
                       /\ n.inner.rc = m.val.dec

----------------------------------------------------------------------------
(* Order of conversion inside one statement *)

\* C17: a call whose name no visible key answers and whose first argument is
\* an Ident that no layer of vars defines stops at the argument (the Ident
\* lookup of line 187), not at the lookup of the call name (line 200).
C17_CallConversionOrder ==
    (/\ pc = "abort"
     /\ Last(ast).s = "Expr"
     /\ Last(ast).expr.inner.x = "FunCall"
     /\ Last(ast).expr.inner.args # <<>>
     /\ Last(ast).expr.inner.args[1].inner.x = "Ident"
     /\ get(vars, Last(ast).expr.inner.args[1].inner.name) = None
     /\ match_function(Last(ast).expr.inner.name, funs) = None) =>
        /\ panic.line = 187
        /\ panic.span = Last(ast).expr.inner.args[1].span

\* C18: the values of a VarDec are converted while none of its names is
\* defined yet: an Ident in a value that spells one of the declaration's own
\* names is looked up to the declaration of that name that was visible before
\* the statement (an object made by an earlier statement) if there is one, and
\* is not found otherwise; the lookup never gives the VarDec being made.
C18_InitializerOrder ==
    (/\ pc = "abort"
     /\ Last(ast).s = "VarDec"
     /\ Last(ast).values[1].inner.x = "Ident"
     /\ Last(ast).values[1].inner.name \in Range(Last(ast).names)) =>
        LET value == Last(ast).values[1]
            prev == InnermostVar(Len(OpenBodies), value.inner.name)
        IN  /\ \A n \in AllNodes :
                   n.inner.s = "VarDec" => n.span # <<pos>>
            /\ IF prev = None
               THEN panic.line = 187 /\ panic.dropped = None
               ELSE /\ panic.line = 204
                    /\ panic.dropped = Some(Var(prev.val, value.span))
                    /\ prev.val \in DOMAIN varDecs

\* `a` was declared, and a second declaration of `a` has the value `a`: the
\* Ident was looked up to the first declaration
C18_Witness ==
    /\ pc = "abort"
    /\ Last(ast).s = "VarDec"
    /\ Last(ast).names = <<"a">>
    /\ Last(ast).values = <<PIdent("a", <<pos, 1>>)>>
    /\ panic.line = 204
    /\ panic.dropped = Some(Var(1, <<pos, 1>>))
    /\ varDecs[1].names = <<"a">>

----------------------------------------------------------------------------
(* The value stack of a name *)

\* the declarations a name should hold, outermost first: for every open
\* block that declares it, the last declaration made in that block
RECURSIVE VarDeclStack(_, _)
VarDeclStack(i, name) ==
    IF i = 0 THEN <<>>
    ELSE VarDeclStack(i - 1, name)
             \o (IF LastVarDec(OpenBodies[i], name) = None THEN <<>>
                 ELSE <<LastVarDec(OpenBodies[i], name).val>>)

RECURSIVE FunDeclStack(_, _)
FunDeclStack(i, key) ==
    IF i = 0 THEN <<>>
    ELSE FunDeclStack(i - 1, key)
             \o (IF LastFunDec(OpenBodies[i], key) = None THEN <<>>
                 ELSE <<LastFunDec(OpenBodies[i], key).val>>)

\* C19: a name holds one value for every open layer that defines it, and
\* that value is the last declaration made in the layer: defining it again
\* in the same layer replaces the value and adds none, the values of outer
\* layers stay as they were, and one pop of the layer brings the outer
\* declaration back.
C19_Redeclaration ==
    /\ \A i \in DOMAIN vars.map :
           vars.map[i].stack = VarDeclStack(Len(OpenBodies), vars.map[i].key)
    /\ \A i \in DOMAIN funs.map :
           funs.map[i].stack = FunDeclStack(Len(OpenBodies), funs.map[i].key)

\* `a` was declared at the top level and defined twice in the one layer of a
\* loop body; the body is closed and `a` is the top-level declaration again
C19_Witness ==
    /\ pc = "run"
    /\ stack = <<>>
    /\ LastVarDec(out, "a") # None
    /\ get(vars, "a") = LastVarDec(out, "a")
    /\ \E n \in Range(out) :
           /\ n.inner.s = "Loop"
           /\ \E b \in Range(n.inner.body) :
                  /\ b.inner.s = "VarDec"
                  /\ varDecs[b.inner.rc].names = <<"a", "a">>
                  /\ b.inner.rc # get(vars, "a").val

----------------------------------------------------------------------------
(* Literals *)

\* C20: converting a Number or String expression succeeds: a statement that
\* is such an expression does not stop the run, and is collected as an Expr
\* statement holding the bound literal with the value and the span of the
\* parse node, with both scope maps as they were.
C20_LiteralPassThrough ==
    /\ ~(/\ pc = "abort"
         /\ Last(ast).s = "Expr"
         /\ IsLiteral(Last(ast).expr)
         /\ panic.line = 202)
    /\ (/\ pc = "run"
        /\ ast # <<>>
        /\ Last(ast).s = "Expr"
        /\ Last(ast).expr.inner.x = "Number") =>
           Last(Last(OpenBodies)) =
               SExpr(Number(Last(ast).expr.inner.n, Last(ast).expr.span),
                     <<pos>>)

----------------------------------------------------------------------------
(* Trace (error/trace.rs) *)

\* a pest error located at a span, and one located at a position
ParsingError(positives, span) ==
    [variant |-> "ParsingError", positives |-> positives, message |-> "",
     loc |-> [kind |-> "Span", ys |-> span.ys, xs |-> span.xs,
              ye |-> span.ye, xe |-> span.xe]]
CustomError(message, span) ==
    [variant |-> "CustomError", positives |-> <<>>, message |-> message,
     loc |-> [kind |-> "Span", ys |-> span.ys, xs |-> span.xs,
              ye |-> span.ye, xe |-> span.xe]]
PosError(positives, y, x) ==
    [variant |-> "ParsingError", positives |-> positives, message |-> "",
     loc |-> [kind |-> "Pos", y |-> y, x |-> x]]

\* Trace::new and From<(Stage, T)>
Trace_new(stage, err) == <<[stage |-> stage, err |-> err]>>
\* From<T>
Trace_from(err) == <<[stage |-> "Unknown", err |-> err]>>
\* Trace::push
push(t, stage, err) == Append(t, [stage |-> stage, err |-> err])

\* the closure handle gives to map_err: the frame of the parent pair
handle(parent, t) ==
    push(t, "Parsing", ParsingError(<<parent.rule>>, parent.span))

\* line_nbr.to_string().len()
RECURSIVE Digits(_)
Digits(n) == IF n < 10 THEN 1 ELSE 1 + Digits(n \div 10)

\* the message pest writes for an error
message(err) ==
    IF err.variant = "CustomError" THEN <<err.message>>
    ELSE IF err.positives = <<>> THEN <<"unknown parsing error">>
    ELSE <<"expected">> \o err.positives

\* the block Display writes for one frame: the arrow (as many '-' as the line
\* number has digits), the stage, the coordinates, the line number and the
\* message; the text of the line and its underline are left out
Block(frame) ==
    LET loc == frame.err.loc
        line_nbr == IF loc.kind = "Pos" THEN loc.y ELSE loc.ys
    IN  [arrow |-> Digits(line_nbr),
         stage |-> frame.stage,
         coords |-> IF loc.kind = "Pos" THEN <<loc.y, loc.x>>
                    ELSE <<loc.ys, loc.xs, loc.ye, loc.xe>>,
         line_nbr |-> line_nbr,
         message |-> message(frame.err)]

\* impl Display for Trace
Display(t) ==
    <<"Deepest error first">> \o [i \in 1..Len(t) |-> Block(t[i])]
----------------------------------------------------------------------------
(* The parser's descent over the pest pairs (parsing.rs) *)

MaxCalls == 6      \* nesting of build_ast_from_* calls
MaxPairs == 8      \* pairs taken up in one run

Lines == {1, 12}
Cols == {1, 4}

\* position (y1, x1) is not after (y2, x2)
NotAfter(y1, x1, y2, x2) == y1 < y2 \/ (y1 = y2 /\ x1 <= x2)

Spans ==
    {s \in [ys : Lines, xs : Cols, ye : Lines, xe : Cols] :
        NotAfter(s.ys, s.xs, s.ye, s.xe) /\ <<s.ys, s.xs>> # <<s.ye, s.xe>>}

\* the spans of the pairs inside a pair
Inside(p) ==
    {s \in Spans : /\ NotAfter(p.ys, p.xs, s.ys, s.xs)
                   /\ NotAfter(s.ye, s.xe, p.ye, p.xe)}

StatementRules == {"expr", "var_dec", "if_block", "fun_dec"}
ExprRules == {"negation", "number", "string", "ident", "fun_call"}

\* build_ast_from_statement or build_ast_from_expr is called on a pair, at a
\* call site that is a plain `?` or a handle(&pair, ..)
Call(fn, rule, span, via) ==
    /\ trace = None
    /\ pairs < MaxPairs
    /\ Len(calls) < MaxCalls
    /\ calls' = Append(calls, [fn |-> fn, rule |-> rule, span |-> span,
                               via |-> via, step |-> 0])
    /\ pairs' = pairs + 1
    /\ UNCHANGED <<trace, printed>>
    /\ UNCHANGED <<ast, pc, vars, funs, stack, out, funDecs, varDecs, pos, panic>>

\* AyParser::parse fails: `?` converts the pest error (parsing.rs:216)
ParsePest ==
    /\ calls = <<>>
    /\ trace = None
    /\ pairs = 0
    /\ \E y \in Lines : \E x \in Cols :
           trace' = Some(Trace_from(PosError(<<"statement">>, y, x)))
    /\ UNCHANGED <<calls, printed, pairs>>
    /\ UNCHANGED <<ast, pc, vars, funs, stack, out, funDecs, varDecs, pos, panic>>

\* parse takes up a top-level statement pair (parsing.rs:222-224)
ParseStatement ==
    /\ calls = <<>>
    /\ \E span \in Spans : Call("statement", "statement", span, "?")

\* Rule::statement: the pair inside it (parsing.rs:200)
StatementInner ==
    /\ calls # <<>>
    /\ Last(calls).fn = "statement"
    /\ Last(calls).rule = "statement"
    /\ Last(calls).step = 0
    /\ \E rule \in StatementRules : \E span \in Inside(Last(calls).span) :
           Call("statement", rule, span, "?")

\* Rule::expr as a statement, the condition of an if_block, a value of a
\* var_dec, the operand of a negation (parsing.rs:127-129, 173, 163-166, 81-83)
ExprInner ==
    /\ calls # <<>>
    /\ \/ Last(calls).fn = "statement" /\ Last(calls).rule = "expr"
          /\ Last(calls).step = 0
       \/ Last(calls).rule = "if_block" /\ Last(calls).step = 0
       \/ Last(calls).rule = "var_dec"
       \/ Last(calls).fn = "expr" /\ Last(calls).rule = "negation"
          /\ Last(calls).step = 0
    /\ \E rule \in ExprRules : \E span \in Inside(Last(calls).span) :
           Call("expr", rule, span, "?")

\* a statement of the then or otherwise block of an if_block, through handle
\* (parsing.rs:175-178, 182-185)
IfStatement ==
    /\ calls # <<>>
    /\ Last(calls).rule = "if_block"
    /\ Last(calls).step >= 1
    /\ \E span \in Inside(Last(calls).span) :
           Call("statement", "statement", span, "handle")
\* the call has nothing left to do and returns Ok
Completes(c) ==
    \/ c.fn = "statement" /\ c.rule \in {"statement", "expr"} /\ c.step = 1
    \/ c.rule = "var_dec"
    \/ c.rule = "if_block" /\ c.step >= 1
    \/ c.fn = "expr" /\ c.rule = "negation" /\ c.step = 1
    \/ c.fn = "expr" /\ c.rule \in {"number", "string", "ident"} /\ c.step = 0

\* the innermost call returns Ok to its caller
ReturnOk ==
    /\ trace = None
    /\ calls # <<>>
    /\ Completes(Last(calls))
    /\ calls' = IF Len(calls) = 1 THEN <<>>
                ELSE [Front(calls) EXCEPT ![Len(calls) - 1].step = @ + 1]
    /\ UNCHANGED <<trace, printed, pairs>>
    /\ UNCHANGED <<ast, pc, vars, funs, stack, out, funDecs, varDecs, pos, panic>>

\* the Trace with which the innermost call fails, if it does
Failure(c) ==
    IF c.fn = "expr" /\ c.rule = "number" /\ c.step = 0
    THEN Some(Trace_new("Parsing", ParsingError(<<>>, c.span)))
    ELSE IF c.fn = "expr" /\ c.rule \notin {"negation", "number", "string", "ident"}
    THEN Some(Trace_new("AstBuilding",
                        CustomError("Missing expression-generating rule", c.span)))
    ELSE IF c.fn = "statement" /\ c.rule = "var_dec" /\ c.step = 0
    THEN Some(Trace_new("Parsing", ParsingError(<<"var_dec">>, c.span)))
    ELSE IF c.fn = "statement"
            /\ c.rule \notin {"expr", "var_dec", "if_block", "statement"}
    THEN Some(Trace_new("AstBuilding",
                        CustomError("Missing statement-generating rule", c.span)))
    ELSE None

\* the innermost call makes an Err: a number that is not octal, idents and
\* values that differ in number, a rule without handling
\* (parsing.rs:96-107, 144-155, 113-121, 201-209)
Fail ==
    /\ trace = None
    /\ calls # <<>>
    /\ Failure(Last(calls)) # None
    /\ trace' = Failure(Last(calls))
    /\ UNCHANGED <<calls, printed, pairs>>
    /\ UNCHANGED <<ast, pc, vars, funs, stack, out, funDecs, varDecs, pos, panic>>

\* the Err leaves the innermost call through its call site: handle pushes the
\* frame of the parent pair, `?` hands the Trace on as it is
Propagate ==
    /\ trace # None
    /\ calls # <<>>
    /\ calls' = Front(calls)
    /\ trace' = IF Last(calls).via = "handle"
                THEN Some(handle(calls[Len(calls) - 1], trace.val))
                ELSE trace
    /\ UNCHANGED <<printed, pairs>>
    /\ UNCHANGED <<ast, pc, vars, funs, stack, out, funDecs, varDecs, pos, panic>>

\* parse has returned the Err and it is written with `{trace}` (main.rs:48-50)
PrintTrace ==
    /\ trace # None
    /\ calls = <<>>
    /\ printed = None
    /\ printed' = Some(Display(trace.val))
    /\ UNCHANGED <<calls, trace, pairs>>
    /\ UNCHANGED <<ast, pc, vars, funs, stack, out, funDecs, varDecs, pos, panic>>

ParseNext ==
    \/ ParsePest
    \/ ParseStatement
    \/ StatementInner
    \/ ExprInner
    \/ IfStatement
    \/ ReturnOk
    \/ Fail
    \/ Propagate
    \/ PrintTrace

ParseSpec == Init /\ [][ParseNext]_vars_

\* C14: a Trace is made with exactly one frame; every caller through which
\* the Err then returns appends exactly one frame, with stage Parsing and the
\* caller's own span, after the frames already there and leaves those as they
\* were; and the frames are written in stack order, the first made first.
C14_TraceOrdering ==
    [][/\ (trace = None /\ trace' # None) => Len(trace'.val) = 1
       /\ (trace # None /\ calls' # calls) =>
              /\ Len(trace'.val) = Len(trace.val) + 1
              /\ SubSeq(trace'.val, 1, Len(trace.val)) = trace.val
              /\ Last(trace'.val).stage = "Parsing"
              /\ Len(calls') >= 1 =>
                     Last(trace'.val).err.loc.ys = Last(calls').span.ys
       /\ (printed = None /\ printed' # None) =>
              /\ Len(printed'.val) = Len(trace.val) + 1
              /\ \A i \in DOMAIN trace.val :
                     /\ printed'.val[i + 1].stage = trace.val[i].stage
                     /\ printed'.val[i + 1].line_nbr
                            = IF trace.val[i].err.loc.kind = "Pos"
                              THEN trace.val[i].err.loc.y
                              ELSE trace.val[i].err.loc.ys]_vars_

----------------------------------------------------------------------------
(* The two scope maps side by side *)

\* C21: vars and funs have the same number of layers in every state of the
\* binding: a block pushes one layer on both before its statements are
\* converted and pops one from both when it is closed.
C21_SameDepth ==
    depth(vars) = depth(funs)

\* inside a loop body inside a function body both maps have two layers above
\* the base layer
C21_Witness ==
    /\ pc = "run"
    /\ Len(stack) = 2
    /\ stack[1].kind = "FunDec"
    /\ stack[2].kind = "Loop"
    /\ depth(vars) = depth(ScopeMap_new) + 2
    /\ depth(funs) = depth(ScopeMap_new) + 2

----------------------------------------------------------------------------
(* Keys with several '.' and keys with an empty part *)

\* the first position of a '.' in a key that has one
FirstDot(key) ==
    CHOOSE i \in DOMAIN key :
        key[i] = Dot /\ \A j \in DOMAIN key : key[j] = Dot => i <= j

\* the three call names of a key read as left part, first '.', right part
FirstDotForms(key) ==
    LET L == [i \in 1..(FirstDot(key) - 1) |-> key[i]]
        R == [i \in 1..(Len(key) - FirstDot(key)) |-> key[FirstDot(key) + i]]
    IN  {[name |-> L \o R, tense |-> Present],
         [name |-> L \o <<"ì", "y">> \o R, tense |-> Imminent],
         [name |-> L \o <<"a", "y">> \o R, tense |-> Future]}

\* a key with more than one '.', or with nothing before or after its '.'
OddKey(key) ==
    \/ DotCount(key) > 1
    \/ DotCount(key) = 1 /\ (key[1] = Dot \/ key[Len(key)] = Dot)

\* C22: a key with more than one '.' is split at its first '.' only, and a
\* key with an empty left or right part is split like any other: with such a
\* key the only one visible, a call is matched exactly when its name is one of
\* the three forms of that split, with the tense of the form; so "a.b.c"
\* gives Present for "ab.c", Imminent for "aìyb.c", Future for "aayb.c" and
\* nothing for any other name.
C22_FirstDotSplit ==
    (pc = "abort" /\ \E key \in ProbeKeys : OddKey(key) /\ VisibleKeys(funs) = {key}) =>
        LET key == CHOOSE k \in VisibleKeys(funs) : TRUE
            name == Last(ast).expr.inner.name
            dec == get(funs, key).val
        IN  /\ Cardinality({f.name : f \in FirstDotForms(key)}) = 3
            /\ (Matched # None) <=> (\E f \in FirstDotForms(key) : f.name = name)
            /\ Matched # None =>
                   /\ Matched.val.dec = dec
                   /\ [name |-> name, tense |-> Matched.val.tense]
                          \in FirstDotForms(key)
            /\ key = a_b_c =>
                   Matched =
                       IF name = ab_c
                       THEN Some([tense |-> Present, dec |-> dec])
                       ELSE IF name = aiyb_c
                       THEN Some([tense |-> Imminent, dec |-> dec])
                       ELSE IF name = aayb_c
                       THEN Some([tense |-> Future, dec |-> dec])
                       ELSE None

\* the call "aìyb.c" was matched against the one key "a.b.c" as Imminent
C22_Witness ==
    /\ VisibleKeys(funs) = {a_b_c}
    /\ pc = "abort"
    /\ Last(ast).expr.inner.name = aiyb_c
    /\ panic.line = 204
    /\ panic.dropped.val.inner.tense = Imminent
    /\ panic.dropped.val.inner.dec = get(funs, a_b_c).val

====
